---- MODULE Spec2Model ----
(***************************************************************************)
(* past/spec-stats: the response-delay reporter.                           *)
(*                                                                         *)
(* Two variants of the script are modelled: src/index.js (the cached       *)
(* affiliation variant, variant = "cached") and src/unnamed/part_000 (the  *)
(* direct membership probe variant, variant = "direct").  main() is one    *)
(* sequential async function; pc is its position (a loop head or a pending *)
(* request) and every action is the code main runs from one position to    *)
(* the next.                                                               *)
(***************************************************************************)
EXTENDS Integers, Sequences, FiniteSets, TLC

VARIABLES
    variant,              \* which file runs: "cached" (index.js) or "direct" (part_000)
    apiIssues,            \* remote API: how many issues it will still list in this run
    apiTimeline,          \* remote API: the longest timeline it returns in this run
    pc,                   \* position of main()
    repos,                \* const repos = listRepositories(): indexes into RepoURLs
    ri,                   \* position of `for (const repo of repos)`
    vendorOrgs,           \* const vendorOrgs: a Map, as a sequence of <<key, value>>
    options,              \* const options = optionsFromURL(repo)
    issuesLeft,           \* issues of `issues` not yet iterated
    issueNo,              \* number of the issue being iterated, within its repository
    issue,                \* const issue
    vendor,               \* const vendor = await getVendorMember(...)
    probes,               \* membership requests sent by the getVendorMember call in progress
    events,               \* const events = await listEvents(...)
    firstInterestingEvent,\* index in events of the event find() returned, 0 = undefined
    responseTimes,        \* the Map responseTimes, as a sequence of <<key, delays>>
    vendorMembers,        \* the Map vendorMembers, as a sequence of <<username, org>>
    out,                  \* console.log lines
    warnings,             \* console.warn / octokit.log.warn lines
    abuseCount,           \* abuse-detection responses received in this run
    error,                \* the error main() rejected with
    exitCode              \* process exit status, -1 while running

vars == <<variant, apiIssues, apiTimeline, pc, repos, ri, vendorOrgs, options,
          issuesLeft, issueNo, issue, vendor, probes, events,
          firstInterestingEvent, responseTimes, vendorMembers, out, warnings,
          abuseCount, error, exitCode>>

----------------------------------------------------------------------------
(* Bounds of the model *)

MaxSpecs == 2
MaxIssues == 2
MaxEvents == 2
MaxAbuse == 1

----------------------------------------------------------------------------
(* Program constants *)

VENDORS == <<"Apple", "Google", "Microsoft", "Mozilla">>
SPEC_DOMAIN == <<"spec.whatwg.org/">>
UNKNOWN_ORG == "unaffiliated"
UNKNOWN_DIRECT == "unknown"
DAY_MS == 24 * 3600 * 1000

NoError == "none"
NoIssue == [login |-> "", created_at |-> <<0, 0>>, html_url |-> <<0, 0>>]
NoOptions == [owner |-> <<>>, repo |-> <<>>]

----------------------------------------------------------------------------
(* Insertion-ordered Map *)

MapKeys(m) == [i \in 1..Len(m) |-> m[i][1]]
MapHas(m, k) == \E i \in 1..Len(m) : m[i][1] = k
MapGet(m, k) == m[CHOOSE i \in 1..Len(m) : m[i][1] = k][2]
MapSet(m, k, v) ==
    IF MapHas(m, k)
    THEN [i \in 1..Len(m) |-> IF m[i][1] = k THEN <<k, v>> ELSE m[i]]
    ELSE Append(m, <<k, v>>)

RECURSIVE Sum(_)
Sum(s) == IF s = <<>> THEN 0 ELSE Head(s) + Sum(Tail(s))

----------------------------------------------------------------------------
(* Inputs: the specification registry and the repository URLs it holds.     *)
(* RepoURLs lists the URL values in the order Array.prototype.sort puts     *)
(* them (code-unit order of the strings, undefined last), so sorting the    *)
(* strings is sorting their indexes.                                        *)

InvalidURL == [valid |-> FALSE, hostname |-> "", pathname |-> <<>>]
RepoURLs == <<
    \* "git@github.com:whatwg/fetch.git": new URL() throws
    InvalidURL,
    \* "https://github.com/w3c"
    [valid |-> TRUE, hostname |-> "github.com", pathname |-> <<"/", "w3c">>],
    \* "https://github.com/whatwg/dom/"
    [valid |-> TRUE, hostname |-> "github.com",
     pathname |-> <<"/", "whatwg", "/", "dom", "/">>],
    \* "https://gitlab.com/whatwg/url"
    [valid |-> TRUE, hostname |-> "gitlab.com",
     pathname |-> <<"/", "whatwg", "/", "url">>],
    \* undefined (the registry entry has no nightly.repository): new URL() throws
    InvalidURL >>

NightlyUrls == { <<"https://", "dom.", "spec.whatwg.org/">>,
                 <<"https://", "w3c.github.io/", "foo/">> }
SpecRecords == [url : NightlyUrls, repository : 1..Len(RepoURLs)]
Registries == UNION { [1..n -> SpecRecords] : n \in 0..MaxSpecs }

EndsWith(s, suffix) ==
    /\ Len(s) >= Len(suffix)
    /\ SubSeq(s, Len(s) - Len(suffix) + 1, Len(s)) = suffix
StartsWith(s, prefix) ==
    /\ Len(s) >= Len(prefix)
    /\ SubSeq(s, 1, Len(prefix)) = prefix

RECURSIVE SetAddAll(_, _)
\* repoSet.add(...) over the registry: a Set keeps the first insertion only
SetAddAll(registry, acc) ==
    IF registry = <<>> THEN acc
    ELSE LET spec == Head(registry)
             hit == EndsWith(spec.url, SPEC_DOMAIN)
             dup == \E i \in 1..Len(acc) : acc[i] = spec.repository
         IN SetAddAll(Tail(registry),
                      IF hit /\ ~dup THEN Append(acc, spec.repository) ELSE acc)

RECURSIVE Insert(_, _)
Insert(sorted, x) ==
    IF sorted = <<>> THEN <<x>>
    ELSE IF x <= Head(sorted) THEN <<x>> \o sorted
    ELSE <<Head(sorted)>> \o Insert(Tail(sorted), x)

RECURSIVE Sort(_)
Sort(s) == IF s = <<>> THEN <<>> ELSE Insert(Sort(Tail(s)), Head(s))

listRepositories(registry) == Sort(SetAddAll(registry, <<>>))

----------------------------------------------------------------------------
(* optionsFromURL *)

NewURL(u) == RepoURLs[u]

RECURSIVE Split(_, _)
\* pathname.split('/'): the segments between the separators, empty ones included
Split(path, cur) ==
    IF path = <<>> THEN <<cur>>
    ELSE IF Head(path) = "/" THEN <<cur>> \o Split(Tail(path), <<>>)
    ELSE Split(Tail(path), Append(cur, Head(path)))

RECURSIVE FilterNonEmpty(_)
FilterNonEmpty(parts) ==
    IF parts = <<>> THEN <<>>
    ELSE IF Head(parts) = <<>> THEN FilterNonEmpty(Tail(parts))
    ELSE <<Head(parts)>> \o FilterNonEmpty(Tail(parts))

\* [threw, ok, value]: threw = new URL() raised TypeError; ok = FALSE is `return null`
optionsFromURL(u) ==
    LET url == NewURL(u)
        parts == FilterNonEmpty(Split(url.pathname, <<>>))
    IN  IF ~url.valid THEN [threw |-> TRUE, ok |-> FALSE, value |-> NoOptions]
        ELSE IF url.hostname # "github.com"
             THEN [threw |-> FALSE, ok |-> FALSE, value |-> NoOptions]
        ELSE IF Len(parts) # 2
             THEN [threw |-> FALSE, ok |-> FALSE, value |-> NoOptions]
        ELSE [threw |-> FALSE, ok |-> TRUE,
              value |-> [owner |-> parts[1], repo |-> parts[2]]]

----------------------------------------------------------------------------
(* getVendorMap *)

Entity(name, org) == [info |-> [name |-> name, gitHubOrganization |-> org]]
EntityDocs == {
    << Entity(<<"Igalia">>, "Igalia"),
       Entity(<<"Mozilla", " Corporation">>, "mozilla"),
       Entity(<<"Google", " LLC">>, "google"),
       Entity(<<"Google", " Ireland">>, "GoogleChrome") >>,
    << Entity(<<"Igalia">>, "Igalia") >> }

\* index of the first entity whose name starts with the vendor, 0 when the
\* inner loop ends without a break
FirstEntity(entities, vendorName) ==
    LET hits == { i \in 1..Len(entities) :
                    StartsWith(entities[i].info.name, <<vendorName>>) }
    IN IF hits = {} THEN 0 ELSE CHOOSE i \in hits : \A j \in hits : i <= j

RECURSIVE VendorMapLoop(_, _, _, _)
VendorMapLoop(v, entities, i, map) ==
    IF i > Len(VENDORS) THEN map
    ELSE LET e == FirstEntity(entities, VENDORS[i])
             org == entities[e].info.gitHubOrganization
         IN VendorMapLoop(v, entities, i + 1,
              IF e = 0 THEN map
              ELSE IF v = "cached" THEN MapSet(map, org, VENDORS[i])
              ELSE MapSet(map, VENDORS[i], org))

getVendorMap(v, entities) ==
    LET map == VendorMapLoop(v, entities, 1, <<>>)
    IN IF v = "cached" THEN MapSet(map, UNKNOWN_ORG, UNKNOWN_ORG) ELSE map

----------------------------------------------------------------------------
(* getVendorMember *)

Outcomes == {"member", "notMember", "abuse"}
Range(s) == { s[i] : i \in 1..Len(s) }

RECURSIVE ProbeLoop(_, _, _, _, _)
\* `for (const org of vendors)`: one membership request per organization until
\* one resolves; a rejected request is caught and ignored
ProbeLoop(orgs, outcome, i, log, sentinel) ==
    IF i > Len(orgs) THEN [result |-> sentinel, probes |-> log]
    ELSE LET sent == Append(log, <<orgs[i], outcome[orgs[i]]>>)
         IN IF outcome[orgs[i]] = "member"
            THEN [result |-> orgs[i], probes |-> sent]
            ELSE ProbeLoop(orgs, outcome, i + 1, sent, sentinel)

\* the lookup made in the wrong Map
CacheHitWrongMap(members, username) == MapHas(responseTimes, username)

CacheHit(members, username) == MapHas(members, username)

\* index.js: [result, probes, members], members the cache after the call
getVendorMemberCached(members, username, vendors, outcome) ==
    IF CacheHit(members, username)
    THEN [result |-> MapGet(members, username), probes |-> <<>>,
          members |-> members]
    ELSE LET r == ProbeLoop(vendors, outcome, 1, <<>>, UNKNOWN_ORG)
         IN [result |-> r.result, probes |-> r.probes,
             members |-> MapSet(members, username, r.result)]

\* part_000: no cache, the vendor names themselves are probed
getVendorMemberDirect(members, username, outcome) ==
    LET r == ProbeLoop(VENDORS, outcome, 1, <<>>, UNKNOWN_DIRECT)
    IN [result |-> r.result, probes |-> r.probes, members |-> members]

\* the organizations a getVendorMember call may send a request for
ProbedOrgs(v, map) == IF v = "cached" THEN MapKeys(map) ELSE VENDORS

getVendorMember(v, members, username, map, outcome) ==
    IF v = "cached"
    THEN getVendorMemberCached(members, username, MapKeys(map), outcome)
    ELSE getVendorMemberDirect(members, username, outcome)

\* `!vendor`
Falsy(str) == str = ""

AbuseIn(log) == Cardinality({ i \in 1..Len(log) : log[i][2] = "abuse" })

----------------------------------------------------------------------------
(* Timeline events, first interesting event, delay *)

NullTime == <<>>
HalfDay == DAY_MS \div 2
\* a timestamp is <<days since SINCE, milliseconds into the day>>
IssueTimes == { <<0, 0>>, <<1, HalfDay>> }
EventTimes == { <<0, HalfDay>>, <<1, HalfDay - 1>> }
Logins == {"alice", "bob"}
Actors == [type : {"User"}, login : Logins]
            \cup { [type |-> "Bot", login |-> "dependabot"] }
Events == [created_at : EventTimes \cup {NullTime}, actor : Actors]
Timelines(n) == UNION { [1..k -> Events] : k \in 0..n }

\* Date.parse, in milliseconds counted from SINCE
DateParse(ts) == ts[1] * DAY_MS + ts[2]

\* the callback without its check of the issue creator
InterestingAnyUser(event, iss) ==
    IF event.created_at = NullTime THEN FALSE
    ELSE IF event.actor.type # "User" THEN FALSE
    ELSE TRUE

Interesting(event, iss) ==
    IF event.created_at = NullTime THEN FALSE
    ELSE IF event.actor.type # "User" THEN FALSE
    ELSE IF event.actor.login = iss.login THEN FALSE
    ELSE TRUE

RECURSIVE Find(_, _, _)
\* events.find(...): the index of the first element the callback accepts
Find(evs, iss, i) ==
    IF i > Len(evs) THEN 0
    ELSE IF Interesting(evs[i], iss) THEN i
    ELSE Find(evs, iss, i + 1)

\* Math.round(num / den), den > 0: the nearest integer, a half going up
MathRound(num, den) == (2 * num + den) \div (2 * den)

Delay(t0, t1) == MathRound(t1 - t0, DAY_MS)

\* responseTimes.set(org, [delay]) in place of the push
addDelayOverwrite(rt, org, delay) == MapSet(rt, org, <<delay>>)

addDelay(rt, org, delay) ==
    LET has == IF MapHas(rt, org) THEN rt ELSE MapSet(rt, org, <<>>)
    IN MapSet(has, org, Append(MapGet(has, org), delay))

Line(kind, subject, value, per) ==
    [kind |-> kind, subject |-> subject, value |-> value, per |-> per]
----------------------------------------------------------------------------
(* The summary at the end of main *)

EmptyReduce == "TypeError: Reduce of empty array with no initial value"
InvalidURLError == "TypeError: Invalid URL"

\* Math.floor(a / b), b > 0
MathFloorDiv(a, b) == a \div b

RECURSIVE VendorAverages(_, _, _, _)
\* `for (const vendor of responseTimes.keys())`: [lines, threw]
VendorAverages(v, rt, map, i) ==
    IF i > Len(rt) THEN [lines |-> <<>>, threw |-> FALSE]
    ELSE LET times == rt[i][2]
             rest == VendorAverages(v, rt, map, i + 1)
             line == IF v = "cached"
                     THEN Line("vendorAverage", MapGet(map, rt[i][1]),
                               MathFloorDiv(Sum(times), Len(times)), 1)
                     ELSE Line("vendorAverage", rt[i][1], Sum(times), Len(times))
         IN IF times = <<>> THEN [lines |-> <<>>, threw |-> TRUE]
            ELSE [lines |-> <<line>> \o rest.lines, threw |-> rest.threw]

RECURSIVE Concat(_, _)
Concat(rt, i) == IF i > Len(rt) THEN <<>> ELSE rt[i][2] \o Concat(rt, i + 1)

\* index.js: totalTimes = totalTimes.concat(times);
\* part_000: totalTimes.concat(times); the result is dropped
TotalTimes(v, rt) == IF v = "cached" THEN Concat(rt, 1) ELSE <<>>

TotalAverage(v, totalTimes) ==
    IF v = "cached"
    THEN Line("totalAverage", "", MathFloorDiv(Sum(totalTimes), Len(totalTimes)), 1)
    ELSE Line("totalAverage", "", Sum(totalTimes), Len(totalTimes))

RECURSIVE VendorStats(_, _, _)
\* the Map vendorStats: org -> the usernames cached under it
VendorStats(members, i, stats) ==
    IF i > Len(members) THEN stats
    ELSE LET org == members[i][2]
             has == IF MapHas(stats, org) THEN stats ELSE MapSet(stats, org, <<>>)
         IN VendorStats(members, i + 1,
                        MapSet(has, org, Append(MapGet(has, org), members[i][1])))

RECURSIVE StatsLines(_, _, _)
StatsLines(stats, map, i) ==
    IF i > Len(stats) THEN <<>>
    ELSE << Line("members", MapGet(map, stats[i][1]), Len(stats[i][2]), 1),
            Line("memberList", stats[i][2], 0, 1) >>
         \o StatsLines(stats, map, i + 1)

\* lines 164-188 of index.js, 162-172 of part_000: [lines, threw]
Summarize(v, rt, map, members) ==
    LET avgs == VendorAverages(v, rt, map, 1)
        totalTimes == TotalTimes(v, rt)
    IN IF avgs.threw THEN avgs
       ELSE IF totalTimes = <<>> THEN [lines |-> avgs.lines, threw |-> TRUE]
       ELSE [lines |-> avgs.lines \o <<TotalAverage(v, totalTimes)>>
                       \o (IF v = "cached"
                           THEN StatsLines(VendorStats(members, 1, <<>>), map, 1)
                           ELSE <<>>),
             threw |-> FALSE]

----------------------------------------------------------------------------
(* The run *)

\* what the remote API holds in a run: many issues with short timelines, or
\* one issue with a long timeline
Scenarios == { <<MaxIssues, 1>>, <<1, MaxEvents>> }

InitOf(v) ==
    /\ variant = v
    /\ \E sc \in Scenarios : apiIssues = sc[1] /\ apiTimeline = sc[2]
    /\ pc = "getVendorMap"
    /\ repos \in { listRepositories(registry) : registry \in Registries }
    /\ ri = 1
    /\ vendorOrgs = <<>>
    /\ options = NoOptions
    /\ issuesLeft = 0
    /\ issueNo = 0
    /\ issue = NoIssue
    /\ vendor = ""
    /\ probes = <<>>
    /\ events = <<>>
    /\ firstInterestingEvent = 0
    /\ responseTimes = <<>>
    /\ vendorMembers = <<>>
    /\ out = <<>>
    /\ warnings = <<>>
    /\ abuseCount = 0
    /\ error = NoError
    /\ exitCode = -1

Init == InitOf("cached")
InitDirect == InitOf("direct")

\* main rejects with e
Reject(e) ==
    /\ pc' = "rejected"
    /\ error' = e

\* the response to a request that fails: "abuse" runs onAbuseLimit, which logs
\* and does not ask for a retry
RequestFails(kind) ==
    /\ kind = "abuse" => abuseCount < MaxAbuse
    /\ abuseCount' = IF kind = "abuse" THEN abuseCount + 1 ELSE abuseCount
    /\ warnings' = IF kind = "abuse"
                   THEN Append(warnings, [kind |-> "abuse", repo |-> 0])
                   ELSE warnings
    /\ Reject(IF kind = "abuse" THEN "HttpError: abuse detection" ELSE "HttpError")

\* const vendorOrgs = await getVendorMap();
GetVendorMap ==
    /\ pc = "getVendorMap"
    /\ \E entities \in EntityDocs : vendorOrgs' = getVendorMap(variant, entities)
    /\ pc' = "repo"
    /\ UNCHANGED <<variant, apiIssues, apiTimeline, repos, ri, options, issuesLeft,
                   issueNo, issue, vendor, probes, events, firstInterestingEvent,
                   responseTimes, vendorMembers, out, warnings, abuseCount, error,
                   exitCode>>

\* fetch(WHATWG_ENTITIES) rejects
GetVendorMapFails ==
    /\ pc = "getVendorMap"
    /\ Reject("FetchError")
    /\ UNCHANGED <<variant, apiIssues, apiTimeline, repos, ri, vendorOrgs, options,
                   issuesLeft, issueNo, issue, vendor, probes, events,
                   firstInterestingEvent, responseTimes, vendorMembers, out,
                   warnings, abuseCount, exitCode>>

\* optionsFromURL(repo) returns null: warn and continue
RepoUnparsable ==
    /\ pc = "repo" /\ ri <= Len(repos)
    /\ LET o == optionsFromURL(repos[ri])
       IN /\ ~o.threw /\ ~o.ok
          /\ warnings' = Append(warnings, [kind |-> "unparsable", repo |-> repos[ri]])
          /\ ri' = ri + 1
    /\ UNCHANGED <<variant, apiIssues, apiTimeline, pc, repos, vendorOrgs, options,
                   issuesLeft, issueNo, issue, vendor, probes, events,
                   firstInterestingEvent, responseTimes, vendorMembers, out,
                   abuseCount, error, exitCode>>

\* new URL(url) throws inside optionsFromURL: nothing in main catches it
RepoThrows ==
    /\ pc = "repo" /\ ri <= Len(repos)
    /\ optionsFromURL(repos[ri]).threw
    /\ Reject(InvalidURLError)
    /\ UNCHANGED <<variant, apiIssues, apiTimeline, repos, ri, vendorOrgs, options,
                   issuesLeft, issueNo, issue, vendor, probes, events,
                   firstInterestingEvent, responseTimes, vendorMembers, out,
                   warnings, abuseCount, exitCode>>

\* const issues = await listIssues(options);
ListIssues ==
    /\ pc = "repo" /\ ri <= Len(repos)
    /\ LET o == optionsFromURL(repos[ri])
       IN /\ o.ok
          /\ options' = o.value
    /\ \E n \in 0..apiIssues :
          /\ issuesLeft' = n
          /\ apiIssues' = apiIssues - n
    /\ issueNo' = 0
    /\ pc' = "issue"
    /\ UNCHANGED <<variant, apiTimeline, repos, ri, vendorOrgs, issue, vendor, probes,
                   events, firstInterestingEvent, responseTimes, vendorMembers, out,
                   warnings, abuseCount, error, exitCode>>

ListIssuesFails ==
    /\ pc = "repo" /\ ri <= Len(repos)
    /\ LET o == optionsFromURL(repos[ri])
       IN /\ o.ok
          /\ options' = o.value
    /\ \E kind \in {"abuse", "error"} : RequestFails(kind)
    /\ UNCHANGED <<variant, apiIssues, apiTimeline, repos, ri, vendorOrgs, issuesLeft,
                   issueNo, issue, vendor, probes, events, firstInterestingEvent,
                   responseTimes, vendorMembers, out, exitCode>>

\* the issue loop of one repository ends
IssuesDone ==
    /\ pc = "issue" /\ issuesLeft = 0
    /\ ri' = ri + 1
    /\ pc' = "repo"
    /\ issue' = NoIssue
    /\ vendor' = ""
    /\ events' = <<>>
    /\ firstInterestingEvent' = 0
    /\ UNCHANGED <<variant, apiIssues, apiTimeline, repos, vendorOrgs, options,
                   issuesLeft, issueNo, probes, responseTimes, vendorMembers, out,
                   warnings, abuseCount, error, exitCode>>

\* the answers the API gives to the membership requests for orgs: the request
\* for orgs[k] is the first one answered "member" (k = 0: none is), the requests
\* at the positions in A are answered by abuse detection, every other one by 404
Answers(orgs, k, A) ==
    [o \in Range(orgs) |->
        LET i == CHOOSE j \in 1..Len(orgs) : orgs[j] = o
        IN IF i = k THEN "member" ELSE IF i \in A THEN "abuse" ELSE "notMember"]

\* const vendor = await getVendorMember(issue.user.login, ...); if (!vendor) continue;
GetVendorMember ==
    /\ pc = "issue" /\ issuesLeft > 0
    /\ \E login \in Logins, created \in IssueTimes :
       LET orgs == ProbedOrgs(variant, vendorOrgs) IN
       \E k \in 0..Len(orgs) :
       \E A \in { S \in SUBSET ((1..Len(orgs)) \ {k}) :
                    Cardinality(S) <= MaxAbuse - abuseCount } :
         LET outcome == Answers(orgs, k, A)
             r == getVendorMember(variant, vendorMembers, login, vendorOrgs, outcome)
             abuses == AbuseIn(r.probes)
         IN /\ issue' = [login |-> login, created_at |-> created,
                         html_url |-> <<repos[ri], issueNo + 1>>]
            /\ vendor' = r.result
            /\ probes' = r.probes
            /\ vendorMembers' = r.members
            /\ abuseCount' = abuseCount + abuses
            /\ warnings' = warnings \o [i \in 1..abuses |-> [kind |-> "abuse", repo |-> 0]]
            /\ pc' = IF Falsy(r.result) THEN "issue" ELSE "listEvents"
    /\ issueNo' = issueNo + 1
    /\ issuesLeft' = issuesLeft - 1
    /\ events' = <<>>
    /\ firstInterestingEvent' = 0
    /\ UNCHANGED <<variant, apiIssues, apiTimeline, repos, ri, vendorOrgs, options,
                   responseTimes, out, error, exitCode>>

\* const events = await listEvents(options, issue); and the rest of the loop body
ListEvents ==
    /\ pc = "listEvents"
    /\ \E evs \in Timelines(apiTimeline) :
         LET first == Find(evs, issue, 1)
             t0 == DateParse(issue.created_at)
             t1 == DateParse(evs[first].created_at)
             delay == Delay(t0, t1)
         IN /\ events' = evs
            /\ firstInterestingEvent' = first
            /\ IF first # 0
               THEN /\ responseTimes' = addDelay(responseTimes, vendor, delay)
                    /\ out' = Append(out, Line("first activity", issue.html_url, delay, 1))
               ELSE /\ responseTimes' = responseTimes
                    /\ out' = Append(out, Line("no activity", issue.html_url, 0, 1))
    /\ probes' = <<>>
    /\ pc' = "issue"
    /\ UNCHANGED <<variant, apiIssues, apiTimeline, repos, ri, vendorOrgs, options,
                   issuesLeft, issueNo, issue, vendor, vendorMembers, warnings,
                   abuseCount, error, exitCode>>

ListEventsFails ==
    /\ pc = "listEvents"
    /\ \E kind \in {"abuse", "error"} : RequestFails(kind)
    /\ probes' = <<>>
    /\ UNCHANGED <<variant, apiIssues, apiTimeline, repos, ri, vendorOrgs, options,
                   issuesLeft, issueNo, issue, vendor, events, firstInterestingEvent,
                   responseTimes, vendorMembers, out, exitCode>>

\* the repository loop has ended: the summary
Summary ==
    /\ pc = "repo" /\ ri > Len(repos)
    /\ LET s == Summarize(variant, responseTimes, vendorOrgs, vendorMembers)
       IN /\ out' = out \o s.lines
          /\ IF s.threw
             THEN Reject(EmptyReduce)
             ELSE pc' = "resolved" /\ error' = error
    /\ UNCHANGED <<variant, apiIssues, apiTimeline, repos, ri, vendorOrgs, options,
                   issuesLeft, issueNo, issue, vendor, probes, events,
                   firstInterestingEvent, responseTimes, vendorMembers, warnings,
                   abuseCount, exitCode>>

\* main().catch((e) => { console.error(e); process.exit(1); })
CatchHandler ==
    /\ pc = "rejected"
    /\ warnings' = Append(warnings, [kind |-> "error", repo |-> 0])
    /\ exitCode' = 1
    /\ pc' = "exited"
    /\ UNCHANGED <<variant, apiIssues, apiTimeline, repos, ri, vendorOrgs, options,
                   issuesLeft, issueNo, issue, vendor, probes, events,
                   firstInterestingEvent, responseTimes, vendorMembers, out,
                   abuseCount, error>>

\* main() resolved and nothing is pending: the process ends with status 0
ExitNormally ==
    /\ pc = "resolved"
    /\ exitCode' = 0
    /\ pc' = "exited"
    /\ UNCHANGED <<variant, apiIssues, apiTimeline, repos, ri, vendorOrgs, options,
                   issuesLeft, issueNo, issue, vendor, probes, events,
                   firstInterestingEvent, responseTimes, vendorMembers, out,
                   warnings, abuseCount, error>>

Next ==
    \/ GetVendorMap
    \/ GetVendorMapFails
    \/ RepoUnparsable
    \/ RepoThrows
    \/ ListIssues
    \/ ListIssuesFails
    \/ IssuesDone
    \/ GetVendorMember
    \/ ListEvents
    \/ ListEventsFails
    \/ Summary
    \/ CatchHandler
    \/ ExitNormally

Spec == Init /\ [][Next]_vars
SpecDirect == InitDirect /\ [][Next]_vars
\* either file
SpecVariants == (Init \/ InitDirect) /\ [][Next]_vars
----------------------------------------------------------------------------
(* Properties *)

IssueLines == SelectSeq(out, LAMBDA l : l.kind \in {"first activity", "no activity"})
FirstActivityLines == SelectSeq(out, LAMBDA l : l.kind = "first activity")
DelayCount == Len(Concat(responseTimes, 1))
\* the loop body has run to its end for `issue`
Recorded == pc = "issue" /\ issue # NoIssue
\* every repository has been iterated
LoopFinished == ri > Len(repos) /\ error # "FetchError"

\* C1: in index.js an issue whose author resolves to no vendor organization is
\* skipped: its timeline is not requested, no line is printed for it and no
\* delay is recorded for it, under no key
UnaffiliatedAuthorSkipped ==
    /\ vendor = UNKNOWN_ORG =>
          /\ pc # "listEvents"
          /\ \A i \in 1..Len(IssueLines) : IssueLines[i].subject # issue.html_url
    /\ ~MapHas(responseTimes, UNKNOWN_ORG)

Qualifies(e) ==
    /\ e.created_at # NullTime
    /\ e.actor.type = "User"
    /\ e.actor.login # issue.login
Qualifying == { k \in 1..Len(events) : Qualifies(events[k]) }

\* C2: the event selected for an issue is the qualifying event of lowest index
\* (timestamp present, human actor, actor other than the author), whatever
\* precedes it; with no qualifying event the issue is printed as "no
\* activity" and no delay is recorded for it
FirstInterestingEventSelected ==
    Recorded =>
       LET last == out[Len(out)]
       IN /\ Len(out) > 0 /\ last.subject = issue.html_url
          /\ IF Qualifying = {}
             THEN /\ firstInterestingEvent = 0
                  /\ last.kind = "no activity"
                  /\ DelayCount = Len(FirstActivityLines)
             ELSE /\ firstInterestingEvent \in Qualifying
                  /\ \A k \in Qualifying : firstInterestingEvent <= k
                  /\ last.kind = "first activity"

\* C2 witness: a disqualified event precedes the selected one
FirstInterestingEventAfterDisqualified ==
    /\ Recorded
    /\ Len(events) = 2
    /\ ~Qualifies(events[1])
    /\ firstInterestingEvent = 2

\* C3: an abuse-detection response to any request of the run (issue listing,
\* timeline listing, membership probe) ends the run: main rejects and the
\* process exits with status 1
AbuseFailureIsFatal ==
    abuseCount > 0 =>
       /\ pc \in {"rejected", "exited"}
       /\ pc = "exited" => exitCode = 1

\* C4: a run that ends the repository loop with no recorded delay raises no
\* error in the summary and ends with status 0
EmptySummaryEndsNormally ==
    (LoopFinished /\ responseTimes = <<>>) => (error = NoError /\ exitCode # 1)

\* l prints the mean of list under the variant's rule: floored in index.js,
\* the exact quotient value / per in part_000
IsMean(l, list) ==
    IF variant = "cached"
    THEN /\ l.per = 1
         /\ l.value * Len(list) <= Sum(list)
         /\ Sum(list) < (l.value + 1) * Len(list)
    ELSE /\ l.per > 0
         /\ l.value * Len(list) = Sum(list) * l.per
DisplayName(key) == IF variant = "cached" THEN MapGet(vendorOrgs, key) ELSE key

\* C5: a finished run that recorded a delay has printed, for every key of the
\* accumulator, the mean of that key's delays, and one overall average, the
\* mean of all the delays
SummaryPrintsAverages ==
    (pc = "exited" /\ LoopFinished /\ responseTimes # <<>>) =>
       /\ \A i \in 1..Len(responseTimes) :
            \E j \in 1..Len(out) :
               /\ out[j].kind = "vendorAverage"
               /\ out[j].subject = DisplayName(responseTimes[i][1])
               /\ IsMean(out[j], responseTimes[i][2])
       /\ \E j \in 1..Len(out) :
               /\ out[j].kind = "totalAverage"
               /\ IsMean(out[j], Concat(responseTimes, 1))

\* C6: the delay recorded for creation time T0 and event time T1 >= T0 is the
\* non-negative integer nearest to (T1 - T0) / 86400000, a half going up; for
\* T1 < T0 no delay is recorded; no negative delay is recorded or printed
DelayRoundedNonNegative ==
    /\ \A i \in 1..Len(responseTimes) :
          \A j \in 1..Len(responseTimes[i][2]) : responseTimes[i][2][j] >= 0
    /\ \A i \in 1..Len(FirstActivityLines) : FirstActivityLines[i].value >= 0
    /\ (Recorded /\ firstInterestingEvent # 0) =>
          LET d == DateParse(events[firstInterestingEvent].created_at)
                      - DateParse(issue.created_at)
              n == out[Len(out)].value
          IN /\ d >= 0
             /\ 2 * n * DAY_MS - DAY_MS <= 2 * d
             /\ 2 * d < 2 * n * DAY_MS + DAY_MS

\* C7: a repository URL that cannot be turned into an (owner, repo) pair
\* never aborts the run: it is warned about and skipped
UnparsableURLNeverAborts ==
    /\ error # InvalidURLError
    /\ \A i \in 1..Len(repos) :
          (i < ri /\ ~optionsFromURL(repos[i]).ok) =>
             \E w \in 1..Len(warnings) :
                warnings[w] = [kind |-> "unparsable", repo |-> repos[i]]

\* C8: in index.js a cache entry is never changed or removed, and a
\* getVendorMember call for a cached username sends no membership request and
\* returns the cached value
CacheEntriesArePermanent ==
    [][ \A i \in 1..Len(vendorMembers) :
          /\ Len(vendorMembers') >= i
          /\ vendorMembers'[i] = vendorMembers[i]
          /\ (pc = "issue" /\ pc' = "listEvents"
                /\ issue'.login = vendorMembers[i][1]) =>
                (probes' = <<>> /\ vendor' = vendorMembers[i][2]) ]_vars

\* C8 witness: a second issue of a cached author has been resolved
CachedAuthorResolvedAgain ==
    /\ pc = "listEvents"
    /\ Len(IssueLines) >= 1
    /\ probes = <<>>
    /\ MapHas(vendorMembers, issue.login)
    /\ vendor = MapGet(vendorMembers, issue.login)

\* the vendors' organizations, in the order of VENDORS
VendorOrganizations ==
    IF variant = "cached"
    THEN SelectSeq(MapKeys(vendorOrgs), LAMBDA k : k # UNKNOWN_ORG)
    ELSE VENDORS
Sentinel == IF variant = "cached" THEN UNKNOWN_ORG ELSE UNKNOWN_DIRECT

\* C9: a getVendorMember call that probes sends its requests to the vendor
\* organizations only, in the vendor order, stops at the first one answered
\* "member" and returns it, goes on after a failed one, returns the sentinel
\* exactly when every vendor organization was probed and failed, and never
\* probes the sentinel
ProbesFollowVendorOrder ==
    (pc = "listEvents" /\ probes # <<>>) =>
       LET n == Len(probes)
       IN /\ n <= Len(VendorOrganizations)
          /\ \A i \in 1..n : probes[i][1] = VendorOrganizations[i]
          /\ \A i \in 1..(n - 1) : probes[i][2] # "member"
          /\ probes[n][2] = "member" => vendor = probes[n][1]
          /\ vendor = Sentinel <=>
                (probes[n][2] # "member" /\ n = Len(VendorOrganizations))
          /\ \A i \in 1..n : probes[i][1] # Sentinel

IssueLineOrder ==
    \A i, j \in 1..Len(IssueLines) :
       i < j => \/ IssueLines[i].subject[1] < IssueLines[j].subject[1]
                \/ /\ IssueLines[i].subject[1] = IssueLines[j].subject[1]
                   /\ IssueLines[i].subject[2] < IssueLines[j].subject[2]

\* rt2 is rt with n pushed at the end of key's list, the list created if absent
Pushed(rt, rt2, key, n) ==
    IF MapHas(rt, key)
    THEN /\ Len(rt2) = Len(rt)
         /\ \A i \in 1..Len(rt) :
               rt2[i] = IF rt[i][1] = key
                        THEN <<key, Append(rt[i][2], n)>> ELSE rt[i]
    ELSE rt2 = Append(rt, <<key, <<n>> >>)

\* C10: the accumulator only grows, by one push at the end of one list; the
\* loop body prints one line per issue, in the order of the issues; a "first
\* activity after N" line comes with one push of N on the list of the author's
\* vendor, a "no activity" line with none; the number of recorded delays is the
\* number of "first activity" lines and no list of the accumulator is empty
AccumulatorMatchesOutput ==
    /\ [](/\ DelayCount = Len(FirstActivityLines)
          /\ \A i \in 1..Len(responseTimes) : responseTimes[i][2] # <<>>
          /\ IssueLineOrder
          /\ Recorded => /\ Len(IssueLines) > 0
                         /\ IssueLines[Len(IssueLines)].subject = issue.html_url)
    /\ [][ IF pc = "listEvents" /\ pc' = "issue"
           THEN LET l == out'[Len(out')]
                IN /\ out' = Append(out, l)
                   /\ l.subject = issue.html_url
                   /\ IF l.kind = "first activity"
                      THEN Pushed(responseTimes, responseTimes', vendor, l.value)
                      ELSE /\ l.kind = "no activity"
                           /\ responseTimes' = responseTimes
           ELSE /\ responseTimes' = responseTimes
                /\ SelectSeq(out', LAMBDA l : l.kind \in {"first activity", "no activity"})
                      = IssueLines ]_vars

\* C10 witness: two delays pushed on the list of one vendor
TwoDelaysForOneVendor ==
    /\ Recorded
    /\ Len(FirstActivityLines) = 2
    /\ Len(responseTimes) = 1
    /\ Len(responseTimes[1][2]) = 2
====
